---- MODULE Spec2Model ----
(***************************************************************************)
(* Plugin registry and slot composition of the broccoli SDK.               *)
(*                                                                         *)
(* The repository holds two revisions of the registry:                     *)
(*   - packages/sdk/src/plugin/PluginRegistryProvider.tsx                  *)
(*       loadPluginFromManifest / unloadPlugin / getSlots, with routes     *)
(*       and translations, no enabled set;                                 *)
(*   - packages/sdk/src/react.tsx (second half)                            *)
(*       registerPlugin / unregisterPlugin / enablePlugin / disablePlugin  *)
(*       / getSlots, with the enabledPlugins set.                          *)
(* An application mounts one of them; `mounted` says which.                *)
(*                                                                         *)
(* Optional fields (priority?, enabled?, routes?, components?, ...) are    *)
(* sequences of length 0 (absent) or 1 (present).                          *)
(***************************************************************************)
EXTENDS Integers, Sequences, FiniteSets, TLC

VARIABLES
    mounted,        \* which PluginRegistryProvider wraps the application
    plugins,        \* useState<Map<string, PluginManifest>>, in insertion order
    pluginsRef,     \* pluginsRef.current (PluginRegistryProvider.tsx only)
    components,     \* useState<ComponentBundle>
    routes,         \* useState<RouteConfig[]> (PluginRegistryProvider.tsx only)
    enabledPlugins, \* useState<Set<string>> (react.tsx only)
    translations,   \* I18nProvider: useState<TranslationMap>
    last,           \* the call that was made last, and what it did
    slotIn,         \* the props of the <Slot> being rendered
    tree,           \* what that <Slot> returned
    defaultLocale,  \* I18nProvider: the defaultLocale prop
    locale,         \* I18nProvider: useState(defaultLocale)
    said,           \* the last call of t, and what it returned
    tasks,          \* the calls of the registry made so far, by call id
    pending,        \* the state updates queued since the last render
    batch           \* the load of a list of plugins (loadAllPlugins, PluginLoader)

vars == <<mounted, plugins, pluginsRef, components, routes, enabledPlugins,
          translations, last, slotIn, tree, defaultLocale, locale, said,
          tasks, pending, batch>>

i18nVars == <<defaultLocale, locale, said>>

asyncVars == <<tasks, pending, batch>>

registryVars == <<plugins, pluginsRef, components, routes, enabledPlugins,
                  translations>>

----------------------------------------------------------------------------
(* Bounds *)

MaxModules == 3      \* plugin modules of the catalogue that can be loaded
MaxSlots == 3        \* length of the slots list of the plugin under <Slot>
MaxCalls == 2        \* calls of the registry made in one behaviour
MaxEntries == 2      \* length of the list of plugins loaded in one batch

----------------------------------------------------------------------------
(* Optional values *)

Absent == <<>>
Some(v) == <<v>>
Has(o) == o # <<>>

----------------------------------------------------------------------------
(* Data: SlotConfig, RouteConfig, PluginManifest, PluginModule *)

Positions == {"append", "prepend", "replace", "before", "after", "wrap"}

Contexts == {"undefined", "admin", "guest"}

SlotNames == {"sidebar.footer", "nav.actions"}

\* slot.condition(context), for a slot whose condition is present; a
\* condition is named by what it tests
condition(slot, context) ==
    CASE slot.condition[1] = "isAdmin" -> context = "admin"
      [] slot.condition[1] = "never" -> FALSE
      [] OTHER -> TRUE

\* `ref` is the identity of the object (two descriptors with equal fields
\* are still two objects)
SlotConfig(ref, name, position, component, priority, cond) ==
    [ref |-> ref, name |-> name, position |-> position,
     component |-> component, priority |-> priority, condition |-> cond]

RouteConfig(ref, path, component) ==
    [ref |-> ref, path |-> path, component |-> component]

EmptyBundle == [k \in {} |-> ""]

ThemePlugin ==
    [manifest |->
        [ref |-> "theme@1", name |-> "theme",
         slots |-> Some(<<
            SlotConfig("theme.0", "sidebar.footer", "prepend", "theme/Toggle",
                       Some(100), Absent),
            SlotConfig("theme.1", "nav.actions", "append", "shared/Button",
                       Absent, Some("always")),
            SlotConfig("theme.3", "nav.actions", "after", "theme/Toggle",
                       Some(100), Some("never")),
            SlotConfig("theme.2", "nav.actions", "before", "theme/Toggle",
                       Some(50), Some("isAdmin")) >>),
         routes |-> Absent,
         components |-> Absent,
         onInit |-> TRUE, onDestroy |-> TRUE,
         enabled |-> Some(TRUE),
         translations |-> Some([l \in {"en"} |->
                                  [k \in {"app.name"} |-> "Theme OJ"]])],
     components |-> [k \in {"theme/Toggle", "shared/Button"} |->
                       IF k = "theme/Toggle" THEN "ThemeToggle"
                       ELSE "ThemeButton"]]

NavPlugin ==
    [manifest |->
        [ref |-> "nav@1", name |-> "nav",
         slots |-> Some(<<
            SlotConfig("nav.0", "nav.actions", "append", "nav/Actions",
                       Some(50), Absent),
            SlotConfig("nav.1", "nav.actions", "replace", "shared/Button",
                       Some(0), Absent),
            SlotConfig("nav.2", "sidebar.footer", "wrap", "nav/Actions",
                       Some(100), Some("isAdmin")),
            SlotConfig("nav.3", "sidebar.footer", "after", "nav/Missing",
                       Some(100), Absent) >>),
         routes |-> Some(<< RouteConfig("nav.r0", "/nav", "nav/Actions"),
                            RouteConfig("nav.r1", "/nav/:id", "nav/Missing") >>),
         components |-> Some([k \in {"nav/Actions", "shared/Button"} |->
                                IF k = "nav/Actions" THEN "NavActions"
                                ELSE "NavButton"]),
         onInit |-> FALSE, onDestroy |-> TRUE,
         enabled |-> Absent,
         translations |-> Some([l \in {"en", "zh-CN"} |->
                                  IF l = "en"
                                  THEN [k \in {"nav.title"} |-> "Navigation"]
                                  ELSE [k \in {"nav.title", "app.name"} |->
                                          "zh"]])],
     components |-> [k \in {"nav/Actions", "shared/Button"} |->
                       IF k = "nav/Actions" THEN "NavActions"
                       ELSE "NavButton"]]

\* a second manifest object with the name of ThemePlugin, disabled by default
ThemePluginV2 ==
    [manifest |->
        [ref |-> "theme@2", name |-> "theme",
         slots |-> Some(<<
            SlotConfig("theme2.0", "nav.actions", "prepend", "theme/Toggle",
                       Some(50), Absent),
            SlotConfig("theme2.1", "sidebar.footer", "replace", "theme/Picker",
                       Some(0 - 10), Some("always")) >>),
         routes |-> Some(<< RouteConfig("theme2.r0", "/theme", "theme/Picker") >>),
         components |-> Absent,
         onInit |-> TRUE, onDestroy |-> FALSE,
         enabled |-> Some(FALSE),
         translations |-> Absent],
     components |-> [k \in {"theme/Toggle", "theme/Picker"} |->
                       IF k = "theme/Toggle" THEN "ThemeToggle2"
                       ELSE "ThemePicker"]]

BetaPlugin ==
    [manifest |->
        [ref |-> "beta@1", name |-> "beta",
         slots |-> Some(<<
            SlotConfig("beta.0", "sidebar.footer", "append", "beta/Badge",
                       Some(100), Absent),
            SlotConfig("beta.1", "nav.actions", "wrap", "beta/Badge",
                       Absent, Some("isAdmin")) >>),
         routes |-> Absent,
         components |-> Absent,
         onInit |-> TRUE, onDestroy |-> TRUE,
         enabled |-> Some(FALSE),
         translations |-> Some([l \in {"zh-CN"} |->
                                  [k \in {"beta.badge"} |-> "beta"]])],
     components |-> [k \in {"beta/Badge"} |-> "BetaBadge"]]

Catalogue == << ThemePlugin, NavPlugin, ThemePluginV2, BetaPlugin >>

Min(a, b) == IF a < b THEN a ELSE b

Modules == {Catalogue[i] : i \in 1..Min(MaxModules, Len(Catalogue))}

Names == {mod.manifest.name : mod \in Modules} \cup {"ghost"}

\* defaultTranslations={{ en }} of the host application
defaultTranslations ==
    [l \in {"en"} |-> [k \in {"app.name"} |-> "Broccoli OJ"]]

----------------------------------------------------------------------------
(* Map<string, PluginManifest>: a sequence of manifests with distinct      *)
(* names, in insertion order                                               *)

MapHas(map, name) == \E i \in 1..Len(map) : map[i].name = name

MapGet(map, name) == map[CHOOSE i \in 1..Len(map) : map[i].name = name]

\* Map.prototype.set keeps the position of a key that is already present
MapSet(map, manifest) ==
    IF MapHas(map, manifest.name)
    THEN [i \in 1..Len(map) |->
            IF map[i].name = manifest.name THEN manifest ELSE map[i]]
    ELSE Append(map, manifest)

MapDelete(map, name) == SelectSeq(map, LAMBDA m : m.name # name)

(* ComponentBundle and TranslationMap: objects, as functions on their keys *)

\* the spread, were it written { ...add, ...prev }
Spread_prevWins(prev, add) ==
    [k \in DOMAIN prev \cup DOMAIN add |->
        IF k \in DOMAIN prev THEN prev[k] ELSE add[k]]

\* { ...prev, ...add }
Spread(prev, add) ==
    [k \in DOMAIN prev \cup DOMAIN add |->
        IF k \in DOMAIN add THEN add[k] ELSE prev[k]]

\* delete next[key] for each key of keys
DeleteKeys(prev, keys) == [k \in DOMAIN prev \ keys |-> prev[k]]

\* addTranslations, were the spread written { ...keys, ...next[loc] }
addTranslations_oldWins(prev, newTranslations) ==
    [loc \in DOMAIN prev \cup DOMAIN newTranslations |->
        IF loc \in DOMAIN newTranslations
        THEN Spread(newTranslations[loc],
                    IF loc \in DOMAIN prev THEN prev[loc] ELSE EmptyBundle)
        ELSE prev[loc]]

\* addTranslations: next[loc] = { ...next[loc], ...keys } for each locale
addTranslations(prev, newTranslations) ==
    [loc \in DOMAIN prev \cup DOMAIN newTranslations |->
        IF loc \in DOMAIN newTranslations
        THEN Spread(IF loc \in DOMAIN prev THEN prev[loc] ELSE EmptyBundle,
                    newTranslations[loc])
        ELSE prev[loc]]

\* removeTranslations, were it to delete next[loc] as a whole
removeTranslations_wholeLocale(prev, toRemove) ==
    [loc \in DOMAIN prev \ DOMAIN toRemove |-> prev[loc]]

\* removeTranslations: for each locale present in the table, delete the keys
removeTranslations(prev, toRemove) ==
    [loc \in DOMAIN prev |->
        IF loc \in DOMAIN toRemove
        THEN DeleteKeys(prev[loc], DOMAIN toRemove[loc])
        ELSE prev[loc]]

----------------------------------------------------------------------------
(* getSlots *)

RECURSIVE Concat(_)
Concat(lists) ==
    IF lists = <<>> THEN <<>> ELSE Head(lists) \o Concat(Tail(lists))

\* (slot.priority || 0)
priority(slot) == IF Has(slot.priority) THEN slot.priority[1] ELSE 0

\* sort, were it not stable: equal priorities come out in reverse order
RECURSIVE sort_unstable(_)
sort_unstable(slots) ==
    IF slots = <<>> THEN <<>>
    ELSE LET a == Head(slots)
             rest == sort_unstable(Tail(slots))
         IN  SelectSeq(rest, LAMBDA b : priority(b) - priority(a) >= 0)
             \o <<a>>
             \o SelectSeq(rest, LAMBDA b : priority(b) - priority(a) < 0)

\* Array.prototype.sort((a, b) => priority(b) - priority(a)): a stable sort,
\* higher priority first
RECURSIVE sort(_)
sort(slots) ==
    IF slots = <<>> THEN <<>>
    ELSE LET a == Head(slots)
             rest == sort(Tail(slots))
         IN  SelectSeq(rest, LAMBDA b : priority(b) - priority(a) > 0)
             \o <<a>>
             \o SelectSeq(rest, LAMBDA b : priority(b) - priority(a) <= 0)

\* plugin.slots.filter(...): name matches, condition absent or truthy
matchingSlots(plugin, slotName, context) ==
    IF Has(plugin.slots)
    THEN SelectSeq(plugin.slots[1],
                   LAMBDA slot :
                       /\ slot.name = slotName
                       /\ ~(Has(slot.condition) /\ ~condition(slot, context)))
    ELSE <<>>

\* PluginRegistryProvider.tsx: the "skip disabled plugins" test asks the
\* plugin map itself
getSlots(slotName, context) ==
    sort(Concat([i \in 1..Len(plugins) |->
                    IF ~MapHas(plugins, plugins[i].name) THEN <<>>
                    ELSE matchingSlots(plugins[i], slotName, context)]))

\* react.tsx: the test asks enabledPlugins
getSlots_react(slotName, context) ==
    sort(Concat([i \in 1..Len(plugins) |->
                    IF plugins[i].name \notin enabledPlugins THEN <<>>
                    ELSE matchingSlots(plugins[i], slotName, context)]))

\* the getSlots of the mounted provider
resolve(slotName, context) ==
    IF mounted = "plugin" THEN getSlots(slotName, context)
    ELSE getSlots_react(slotName, context)

\* react.tsx isPluginEnabled
isPluginEnabled(pluginName) == pluginName \in enabledPlugins

----------------------------------------------------------------------------
(* The record of the last call *)

Snapshot == [components |-> components, routes |-> routes,
             translations |-> translations]

Call(op, name, ref, outcome, onInit, onDestroy, rt) ==
    [op |-> op, name |-> name, ref |-> ref, outcome |-> outcome,
     onInit |-> onInit, onDestroy |-> onDestroy, rt |-> rt]

\* a load of a name that was not registered opens a round trip; the unload
\* of that name right after it closes it
OpenRoundTrip(name) ==
    IF MapHas(plugins, name) THEN Absent
    ELSE Some([name |-> name, pre |-> Snapshot])

CloseRoundTrip(name) ==
    IF /\ Has(last.rt)
       /\ last.rt[1].name = name
       /\ last.outcome = "loaded"
    THEN last.rt ELSE Absent

Hooks == {"ok", "throws"}

----------------------------------------------------------------------------
(* plugin/PluginRegistryProvider.tsx.  A call is awaited and React commits *)
(* the state updates it queued (which also refreshes pluginsRef.current)   *)
(* before the next call is made.                                           *)

\* loadPluginFromManifest, were the catch of onInit not to return
loadPluginFromManifest_noReturn(module, hook) ==
    LET manifest == module.manifest
        pluginComponents == module.components
    IN  /\ mounted = "plugin"
        /\ IF MapHas(pluginsRef, manifest.name)
           THEN /\ UNCHANGED registryVars
                /\ last' = Call("load", manifest.name, manifest.ref,
                                "duplicate", FALSE, FALSE, Absent)
           ELSE /\ plugins' = MapSet(plugins, manifest)
                /\ pluginsRef' = plugins'
                /\ components' = Spread(components, pluginComponents)
                /\ routes' = IF Has(manifest.routes)
                             THEN routes \o manifest.routes[1]
                             ELSE routes
                /\ translations' =
                       IF Has(manifest.translations)
                       THEN addTranslations(translations,
                                            manifest.translations[1])
                       ELSE translations
                /\ UNCHANGED enabledPlugins
                /\ last' = Call("load", manifest.name, manifest.ref,
                                IF manifest.onInit /\ hook = "throws"
                                THEN "initFailed" ELSE "loaded",
                                manifest.onInit, FALSE,
                                OpenRoundTrip(manifest.name))
        /\ UNCHANGED <<mounted, slotIn, tree, i18nVars, asyncVars>>

loadPluginFromManifest(module, hook) ==
    LET manifest == module.manifest
        pluginComponents == module.components
    IN  /\ mounted = "plugin"
        /\ IF MapHas(pluginsRef, manifest.name)
           THEN /\ UNCHANGED registryVars
                /\ last' = Call("load", manifest.name, manifest.ref,
                                "duplicate", FALSE, FALSE, Absent)
           ELSE IF manifest.onInit /\ hook = "throws"
           THEN /\ UNCHANGED registryVars
                /\ last' = Call("load", manifest.name, manifest.ref,
                                "initFailed", TRUE, FALSE, Absent)
           ELSE /\ plugins' = MapSet(plugins, manifest)
                /\ pluginsRef' = plugins'
                /\ components' = Spread(components, pluginComponents)
                /\ routes' = IF Has(manifest.routes)
                             THEN routes \o manifest.routes[1]
                             ELSE routes
                /\ translations' =
                       IF Has(manifest.translations)
                       THEN addTranslations(translations,
                                            manifest.translations[1])
                       ELSE translations
                /\ UNCHANGED enabledPlugins
                /\ last' = Call("load", manifest.name, manifest.ref,
                                "loaded", manifest.onInit, FALSE,
                                OpenRoundTrip(manifest.name))
        /\ UNCHANGED <<mounted, slotIn, tree, i18nVars, asyncVars>>

\* unloadPlugin, were the catch of onDestroy to return
unloadPlugin_returnOnThrow(pluginId, hook) ==
    /\ mounted = "plugin"
    /\ IF ~MapHas(pluginsRef, pluginId)
       THEN /\ UNCHANGED registryVars
            /\ last' = Call("unload", pluginId, "", "absent", FALSE, FALSE,
                            Absent)
       ELSE LET manifest == MapGet(pluginsRef, pluginId)
            IN  IF manifest.onDestroy /\ hook = "throws"
                THEN /\ UNCHANGED registryVars
                     /\ last' = Call("unload", pluginId, manifest.ref,
                                     "destroyFailed", FALSE, TRUE, Absent)
                ELSE /\ plugins' = MapDelete(plugins, pluginId)
                     /\ pluginsRef' = plugins'
                     /\ components' =
                            IF Has(manifest.components)
                            THEN DeleteKeys(components,
                                            DOMAIN manifest.components[1])
                            ELSE components
                     /\ routes' =
                            IF Has(manifest.routes)
                            THEN SelectSeq(routes, LAMBDA route :
                                    ~(\E i \in 1..Len(manifest.routes[1]) :
                                         manifest.routes[1][i] = route))
                            ELSE routes
                     /\ translations' =
                            IF Has(manifest.translations)
                            THEN removeTranslations(translations,
                                                    manifest.translations[1])
                            ELSE translations
                     /\ UNCHANGED enabledPlugins
                     /\ last' = Call("unload", pluginId, manifest.ref,
                                     "unloaded", FALSE, manifest.onDestroy,
                                     CloseRoundTrip(pluginId))
    /\ UNCHANGED <<mounted, slotIn, tree, i18nVars, asyncVars>>

unloadPlugin(pluginId, hook) ==
    /\ mounted = "plugin"
    /\ IF ~MapHas(pluginsRef, pluginId)
       THEN /\ UNCHANGED registryVars
            /\ last' = Call("unload", pluginId, "", "absent", FALSE, FALSE,
                            Absent)
       ELSE LET manifest == MapGet(pluginsRef, pluginId)
            IN  /\ plugins' = MapDelete(plugins, pluginId)
                /\ pluginsRef' = plugins'
                /\ components' =
                       IF Has(manifest.components)
                       THEN DeleteKeys(components,
                                       DOMAIN manifest.components[1])
                       ELSE components
                /\ routes' =
                       IF Has(manifest.routes)
                       THEN SelectSeq(routes, LAMBDA route :
                               ~(\E i \in 1..Len(manifest.routes[1]) :
                                    manifest.routes[1][i] = route))
                       ELSE routes
                /\ translations' =
                       IF Has(manifest.translations)
                       THEN removeTranslations(translations,
                                               manifest.translations[1])
                       ELSE translations
                /\ UNCHANGED enabledPlugins
                /\ last' = Call("unload", pluginId, manifest.ref,
                                IF manifest.onDestroy /\ hook = "throws"
                                THEN "destroyFailed" ELSE "unloaded",
                                FALSE, manifest.onDestroy,
                                CloseRoundTrip(pluginId))
    /\ UNCHANGED <<mounted, slotIn, tree, i18nVars, asyncVars>>

----------------------------------------------------------------------------
(* react.tsx (second half)                                                 *)

registerPlugin(module, hook) ==
    LET manifest == module.manifest
        pluginComponents == module.components
    IN  /\ mounted = "react"
        /\ IF manifest.onInit /\ hook = "throws"
           THEN /\ UNCHANGED registryVars
                /\ last' = Call("load", manifest.name, manifest.ref,
                                "initFailed", TRUE, FALSE, Absent)
           ELSE /\ plugins' = MapSet(plugins, manifest)
                /\ components' = Spread(components, pluginComponents)
                /\ enabledPlugins' =
                       IF manifest.enabled # Some(FALSE)
                       THEN enabledPlugins \cup {manifest.name}
                       ELSE enabledPlugins
                /\ UNCHANGED <<pluginsRef, routes, translations>>
                /\ last' = Call("load", manifest.name, manifest.ref,
                                "loaded", manifest.onInit, FALSE,
                                OpenRoundTrip(manifest.name))
        /\ UNCHANGED <<mounted, slotIn, tree, i18nVars, asyncVars>>

unregisterPlugin(pluginName, hook) ==
    /\ mounted = "react"
    /\ IF ~MapHas(plugins, pluginName)
       THEN /\ UNCHANGED registryVars
            /\ last' = Call("unload", pluginName, "", "absent", FALSE, FALSE,
                            Absent)
       ELSE LET plugin == MapGet(plugins, pluginName)
            IN  /\ plugins' = MapDelete(plugins, pluginName)
                /\ enabledPlugins' = enabledPlugins \ {pluginName}
                /\ components' =
                       IF Has(plugin.components)
                       THEN DeleteKeys(components, DOMAIN plugin.components[1])
                       ELSE components
                /\ UNCHANGED <<pluginsRef, routes, translations>>
                /\ last' = Call("unload", pluginName, plugin.ref,
                                IF plugin.onDestroy /\ hook = "throws"
                                THEN "destroyFailed" ELSE "unloaded",
                                FALSE, plugin.onDestroy,
                                CloseRoundTrip(pluginName))
    /\ UNCHANGED <<mounted, slotIn, tree, i18nVars, asyncVars>>

enablePlugin(pluginName) ==
    /\ mounted = "react"
    /\ enabledPlugins' = enabledPlugins \cup {pluginName}
    /\ last' = Call("enable", pluginName, "", "done", FALSE, FALSE, Absent)
    /\ UNCHANGED <<mounted, plugins, pluginsRef, components, routes,
                   translations, slotIn, tree, i18nVars, asyncVars>>

\* disablePlugin, were it to drop the registration as well
disablePlugin_unregisters(pluginName) ==
    /\ mounted = "react"
    /\ enabledPlugins' = enabledPlugins \ {pluginName}
    /\ plugins' = MapDelete(plugins, pluginName)
    /\ last' = Call("disable", pluginName, "", "done", FALSE, FALSE, Absent)
    /\ UNCHANGED <<mounted, pluginsRef, components, routes,
                   translations, slotIn, tree, i18nVars, asyncVars>>

disablePlugin(pluginName) ==
    /\ mounted = "react"
    /\ enabledPlugins' = enabledPlugins \ {pluginName}
    /\ last' = Call("disable", pluginName, "", "done", FALSE, FALSE, Absent)
    /\ UNCHANGED <<mounted, plugins, pluginsRef, components, routes,
                   translations, slotIn, tree, i18nVars, asyncVars>>

----------------------------------------------------------------------------
(* i18n.tsx.  A string is the sequence of its pieces: a piece is a token   *)
(* {{param}} or the text between two tokens.                               *)

Locales == {"en", "zh-CN", "fr"}

Keys == {"app.name", "greeting"}

\* the messages of the application, per locale
Messages ==
    [loc \in Locales |->
        [key \in Keys |->
            CASE loc = "en" /\ key = "app.name" -> "Broccoli OJ"
              [] loc = "en" /\ key = "greeting" -> "Hi {{name}}, {{name}}!"
              [] loc = "zh-CN" /\ key = "app.name" -> "Broccoli OJ (zh-CN)"
              [] loc = "zh-CN" /\ key = "greeting" -> "{{name}} (zh-CN)"
              [] loc = "fr" /\ key = "app.name" -> "Broccoli OJ (fr)"
              [] OTHER -> "Salut {{name}}"]]

Tokens(value) ==
    CASE value = "Hi {{name}}, {{name}}!"
            -> << "Hi ", "{{name}}", ", ", "{{name}}", "!" >>
      [] value = "{{name}} (zh-CN)" -> << "{{name}}", " (zh-CN)" >>
      [] value = "Salut {{name}}" -> << "Salut ", "{{name}}" >>
      [] OTHER -> << value >>

\* `{{${param}}}`
Token(param) == IF param = "name" THEN "{{name}}" ELSE "{{title}}"

\* String.prototype.replace(pattern, replacement) with a string pattern:
\* the first occurrence only
replace(value, pattern, replacement) ==
    IF \E i \in 1..Len(value) : value[i] = pattern
    THEN LET first == CHOOSE i \in 1..Len(value) :
                         /\ value[i] = pattern
                         /\ \A j \in 1..(i - 1) : value[j] # pattern
         IN  [i \in 1..Len(value) |->
                IF i = first THEN replacement ELSE value[i]]
    ELSE value

\* for (const [param, replacement] of Object.entries(params))
RECURSIVE replaceEach(_, _)
replaceEach(value, entries) ==
    IF entries = <<>> THEN value
    ELSE replaceEach(replace(value, Token(Head(entries)[1]),
                             Head(entries)[2]),
                     Tail(entries))

\* translations[loc]?.[key]: present or undefined
Lookup(loc, key) ==
    IF loc \in DOMAIN translations /\ key \in DOMAIN translations[loc]
    THEN Some(translations[loc][key])
    ELSE Absent

t(key, params) ==
    LET value == IF Has(Lookup(locale, key)) THEN Lookup(locale, key)[1]
                 ELSE IF Has(Lookup("en", key)) THEN Lookup("en", key)[1]
                 ELSE key
    IN  IF Has(params) THEN replaceEach(Tokens(value), params[1])
        ELSE Tokens(value)

NoLookup == [key |-> "", params |-> Absent, locale |-> "", value |-> <<>>]

LookupKeys == Keys \cup {"page.title"}

Params == {Absent, Some(<< <<"name", "Ann">> >>),
           Some(<< <<"title", "Dr">>, <<"name", "Ann">> >>)}

\* the tables the provider can be given as defaultTranslations: any part of
\* the messages
Tables ==
    UNION {[locs -> SUBSET Keys] : locs \in SUBSET Locales}

TableOf(shape) ==
    [loc \in DOMAIN shape |->
        [key \in shape[loc] |-> Messages[loc][key]]]

NoBatch == [pc |-> "idle", response |-> "", entries |-> <<>>]

InitI18n ==
    /\ mounted = "plugin"
    /\ plugins = <<>>
    /\ pluginsRef = <<>>
    /\ components = EmptyBundle
    /\ routes = <<>>
    /\ enabledPlugins = {}
    /\ \E shape \in Tables : translations = TableOf(shape)
    /\ last = Call("init", "", "", "", FALSE, FALSE, Absent)
    /\ slotIn = [name |-> "", children |-> "", context |-> "undefined",
                 throws |-> {}]
    /\ tree = <<>>
    /\ defaultLocale \in Locales
    /\ locale = defaultLocale
    /\ said = NoLookup
    /\ tasks = <<>>
    /\ pending = <<>>
    /\ batch = NoBatch

setLocale(loc) ==
    /\ locale' = loc
    /\ UNCHANGED <<mounted, registryVars, last, slotIn, tree, defaultLocale,
                   said, asyncVars>>

\* a call of t
Translate(key, params) ==
    /\ said' = [key |-> key, params |-> params, locale |-> locale,
                value |-> t(key, params)]
    /\ UNCHANGED <<mounted, registryVars, last, slotIn, tree, defaultLocale,
                   locale, asyncVars>>

NextI18n ==
    \/ \E loc \in Locales : setLocale(loc)
    \/ \E key \in LookupKeys, params \in Params : Translate(key, params)

SpecI18n == InitI18n /\ [][NextI18n]_vars

----------------------------------------------------------------------------
(* The table under addTranslations and removeTranslations, called by the   *)
(* application and, with the translations of a manifest, by                *)
(* loadPluginFromManifest and unloadPlugin.  The strings a caller adds are *)
(* its own name.                                                           *)

TableLocales == {"en", "fr"}

Shapes ==
    {shape \in UNION {[locs -> (SUBSET Keys) \ {{}}] :
                         locs \in SUBSET TableLocales} :
        "fr" \in DOMAIN shape => shape["fr"] = {"greeting"}}

Delta(shape, owner) ==
    [loc \in DOMAIN shape |-> [key \in shape[loc] |-> owner]]

Deltas == {Delta(shape, "host") : shape \in Shapes}

\* a plugin that contributes translations only
TranslatedPlugin(name, shape) ==
    [manifest |->
        [ref |-> name, name |-> name,
         slots |-> Absent, routes |-> Absent, components |-> Absent,
         onInit |-> FALSE, onDestroy |-> FALSE, enabled |-> Absent,
         translations |-> Some(Delta(shape, name))],
     components |-> EmptyBundle]

TranslatedNames == {"A", "B"}

TranslatedPlugins ==
    {TranslatedPlugin(name, [loc \in {"en"} |-> {"greeting"}]) :
        name \in TranslatedNames}

InitTable ==
    /\ InitI18n
    /\ defaultLocale = "en"
    /\ DOMAIN translations \subseteq {"en"}

\* addTranslations(delta) of useTranslation
AddTranslations(delta) ==
    /\ translations' = addTranslations(translations, delta)
    /\ last' = Call("addTranslations", "host", "", "", FALSE, FALSE,
                    Some([name |-> "host", pre |-> Snapshot]))
    /\ UNCHANGED <<mounted, plugins, pluginsRef, components, routes,
                   enabledPlugins, slotIn, tree, i18nVars, asyncVars>>

\* removeTranslations(delta) of useTranslation
RemoveTranslations(delta) ==
    /\ translations' = removeTranslations(translations, delta)
    /\ last' = Call("removeTranslations", "host", "", "", FALSE, FALSE,
                    Some([name |-> "host", pre |-> Snapshot]))
    /\ UNCHANGED <<mounted, plugins, pluginsRef, components, routes,
                   enabledPlugins, slotIn, tree, i18nVars, asyncVars>>

NextTable ==
    \/ \E delta \in Deltas : AddTranslations(delta)
    \/ \E delta \in Deltas : RemoveTranslations(delta)
    \/ \E module \in TranslatedPlugins : loadPluginFromManifest(module, "ok")
    \/ \E name \in TranslatedNames : unloadPlugin(name, "ok")
    \/ \E loc \in TableLocales : setLocale(loc)

SpecTable == InitTable /\ [][NextTable]_vars

----------------------------------------------------------------------------
(* Specification of the registry *)

NoSlot == [name |-> "", children |-> "", context |-> "undefined",
           throws |-> {}]

Init ==
    /\ mounted \in {"plugin", "react"}
    /\ plugins = <<>>
    /\ pluginsRef = <<>>
    /\ components = EmptyBundle
    /\ routes = <<>>
    /\ enabledPlugins = {}
    /\ translations = defaultTranslations
    /\ last = Call("init", "", "", "", FALSE, FALSE, Absent)
    /\ slotIn = NoSlot
    /\ tree = <<>>
    /\ defaultLocale = "en"
    /\ locale = defaultLocale
    /\ said = NoLookup
    /\ tasks = <<>>
    /\ pending = <<>>
    /\ batch = NoBatch

Next ==
    \/ \E module \in Modules, hook \in Hooks :
           loadPluginFromManifest(module, hook)
    \/ \E pluginId \in Names, hook \in Hooks : unloadPlugin(pluginId, hook)
    \/ \E module \in Modules, hook \in Hooks : registerPlugin(module, hook)
    \/ \E pluginName \in Names, hook \in Hooks :
           unregisterPlugin(pluginName, hook)
    \/ \E pluginName \in Names : enablePlugin(pluginName)
    \/ \E pluginName \in Names : disablePlugin(pluginName)

Spec == Init /\ [][Next]_vars

----------------------------------------------------------------------------
(* Loading a plugin module: loadPluginFromModule of                        *)
(* PluginRegistryProvider.tsx, and the loaders of PluginLoader.tsx, which  *)
(* register with the provider of react.tsx.  A module is a record that has *)
(* the fields it exports.                                                  *)

\* a manifest whose module exports no components
BareManifest ==
    [ref |-> "bare@1", name |-> "bare",
     slots |-> Some(<< SlotConfig("bare.0", "nav.actions", "append",
                                  "bare/Link", Absent, Absent) >>),
     routes |-> Absent, components |-> Absent,
     onInit |-> TRUE, onDestroy |-> FALSE,
     enabled |-> Absent, translations |-> Absent]

NoComponentsModule == [manifest |-> BareManifest]

NoManifestModule == [components |-> [k \in {"orphan/Widget"} |-> "Widget"]]

GivenModules == Modules \cup {NoComponentsModule, NoManifestModule}

GivenNames == Names \cup {BareManifest.name}

\* the messages of the errors
TypeErrorName == "Cannot read properties of undefined (reading 'name')"

NoManifestError == "Plugin module must export a manifest"

NoComponentsError == "Plugin module must export components"

InvalidModuleError == "Invalid plugin module"

\* loadPluginFromManifest(module.manifest, module.components): an absent
\* manifest fails at manifest.name, absent components spread to nothing
loadPluginFromModule(module, hook) ==
    IF "manifest" \notin DOMAIN module
    THEN /\ mounted = "plugin"
         /\ last' = Call("load", "", "", TypeErrorName, FALSE, FALSE, Absent)
         /\ UNCHANGED registryVars
         /\ UNCHANGED <<mounted, slotIn, tree, i18nVars, asyncVars>>
    ELSE loadPluginFromManifest(
             [manifest |-> module.manifest,
              components |-> IF "components" \in DOMAIN module
                             THEN module.components ELSE EmptyBundle],
             hook)

\* useDynamicPluginLoader: loadPlugin
loadPlugin(plugin, hook) ==
    IF "manifest" \notin DOMAIN plugin \/ "components" \notin DOMAIN plugin
    THEN /\ mounted = "react"
         /\ last' = Call("load",
                         IF "manifest" \in DOMAIN plugin
                         THEN plugin.manifest.name ELSE "",
                         IF "manifest" \in DOMAIN plugin
                         THEN plugin.manifest.ref ELSE "",
                         InvalidModuleError, FALSE, FALSE, Absent)
         /\ UNCHANGED registryVars
         /\ UNCHANGED <<mounted, slotIn, tree, i18nVars, asyncVars>>
    ELSE registerPlugin(plugin, hook)

\* PluginLoader: the callback of loadPlugins for one plugin of the list; it
\* catches the error and hands it to onError
loadPlugins(plugin, hook) ==
    IF "manifest" \notin DOMAIN plugin
    THEN /\ mounted = "react"
         /\ last' = Call("load", "", "", NoManifestError, FALSE, FALSE,
                         Absent)
         /\ UNCHANGED registryVars
         /\ UNCHANGED <<mounted, slotIn, tree, i18nVars, asyncVars>>
    ELSE IF "components" \notin DOMAIN plugin
    THEN /\ mounted = "react"
         /\ last' = Call("load", plugin.manifest.name, plugin.manifest.ref,
                         NoComponentsError, FALSE, FALSE, Absent)
         /\ UNCHANGED registryVars
         /\ UNCHANGED <<mounted, slotIn, tree, i18nVars, asyncVars>>
    ELSE registerPlugin(plugin, hook)

NextModule ==
    \/ \E module \in GivenModules, hook \in Hooks :
           loadPluginFromModule(module, hook)
    \/ \E plugin \in GivenModules, hook \in Hooks : loadPlugin(plugin, hook)
    \/ \E plugin \in GivenModules, hook \in Hooks : loadPlugins(plugin, hook)
    \/ \E pluginId \in GivenNames, hook \in Hooks :
           unloadPlugin(pluginId, hook)
    \/ \E pluginName \in GivenNames, hook \in Hooks :
           unregisterPlugin(pluginName, hook)

SpecModule == Init /\ [][NextModule]_vars

----------------------------------------------------------------------------
(* The calls of the registry, step by step.  A call runs until its first   *)
(* await (the hook of the plugin) and is resumed when the hook settles;    *)
(* the setState calls it makes are queued, and React applies the queue     *)
(* when it renders the provider next, which is also when                   *)
(* pluginsRef.current and the closures of the callbacks are refreshed.     *)

Task(op, name, manifest, bundle, pc, outcome, hook) ==
    [op |-> op, name |-> name, manifest |-> manifest,
     ref |-> IF Has(manifest) THEN manifest[1].ref ELSE "",
     components |-> bundle, pc |-> pc, outcome |-> outcome, hook |-> hook,
     entry |-> 0, after |-> last]

\* what `last` says of a call that has settled
Settled(task) ==
    Call(task.op, task.name, task.ref, task.outcome,
         task.op = "load" /\ task.hook, task.op = "unload" /\ task.hook,
         Absent)

Update(call, set) == [call |-> call, set |-> set]

\* PluginRegistryProvider.tsx 57-75: the setState calls of a load
loadUpdates(call, manifest) ==
    << Update(call, "plugins"), Update(call, "components") >>
    \o (IF Has(manifest.routes) THEN << Update(call, "routes") >> ELSE <<>>)
    \o (IF Has(manifest.translations)
        THEN << Update(call, "translations") >> ELSE <<>>)

\* PluginRegistryProvider.tsx 126-153: the setState calls of an unload
unloadUpdates(call, manifest) ==
    << Update(call, "plugins") >>
    \o (IF Has(manifest.components)
        THEN << Update(call, "components") >> ELSE <<>>)
    \o (IF Has(manifest.routes) THEN << Update(call, "routes") >> ELSE <<>>)
    \o (IF Has(manifest.translations)
        THEN << Update(call, "translations") >> ELSE <<>>)

\* react.tsx 219-233
registerUpdates(call, manifest) ==
    << Update(call, "plugins"), Update(call, "components") >>
    \o (IF manifest.enabled # Some(FALSE)
        THEN << Update(call, "enabledPlugins") >> ELSE <<>>)

\* react.tsx 252-273
unregisterUpdates(call, manifest) ==
    << Update(call, "plugins"), Update(call, "enabledPlugins") >>
    \o (IF Has(manifest.components)
        THEN << Update(call, "components") >> ELSE <<>>)

\* the updater function of one setState call, applied to prev
updater(update, prev) ==
    LET task == tasks[update.call]
        manifest == task.manifest[1]
    IN  IF task.op = "load"
        THEN CASE update.set = "plugins" -> MapSet(prev, manifest)
               [] update.set = "components" -> Spread(prev, task.components)
               [] update.set = "routes" -> prev \o manifest.routes[1]
               [] update.set = "translations"
                    -> addTranslations(prev, manifest.translations[1])
               [] OTHER -> prev \cup {manifest.name}
        ELSE CASE update.set = "plugins" -> MapDelete(prev, task.name)
               [] update.set = "components"
                    -> DeleteKeys(prev, DOMAIN manifest.components[1])
               [] update.set = "routes"
                    -> SelectSeq(prev, LAMBDA route :
                          ~(\E i \in 1..Len(manifest.routes[1]) :
                               manifest.routes[1][i] = route))
               [] update.set = "translations"
                    -> removeTranslations(prev, manifest.translations[1])
               [] OTHER -> prev \ {task.name}

\* the queued updaters of one state, applied in the order they were queued
RECURSIVE reduce(_, _, _)
reduce(queue, set, prev) ==
    IF queue = <<>> THEN prev
    ELSE reduce(Tail(queue), set,
                IF Head(queue).set = set THEN updater(Head(queue), prev)
                ELSE prev)

\* render, were React to apply one queued update per render
render_oneUpdate ==
    /\ pending # <<>>
    /\ LET queue == << Head(pending) >>
       IN  /\ plugins' = reduce(queue, "plugins", plugins)
           /\ components' = reduce(queue, "components", components)
           /\ routes' = reduce(queue, "routes", routes)
           /\ enabledPlugins' = reduce(queue, "enabledPlugins", enabledPlugins)
           /\ translations' = reduce(queue, "translations", translations)
    /\ pluginsRef' = IF mounted = "plugin" THEN plugins' ELSE pluginsRef
    /\ pending' = Tail(pending)
    /\ UNCHANGED <<mounted, last, slotIn, tree, i18nVars, tasks, batch>>

\* React renders the providers: every update queued since the last render
\* is applied, and the body of the provider runs with the new state
render ==
    /\ pending # <<>>
    /\ LET queue == pending
       IN  /\ plugins' = reduce(queue, "plugins", plugins)
           /\ components' = reduce(queue, "components", components)
           /\ routes' = reduce(queue, "routes", routes)
           /\ enabledPlugins' = reduce(queue, "enabledPlugins", enabledPlugins)
           /\ translations' = reduce(queue, "translations", translations)
    /\ pluginsRef' = IF mounted = "plugin" THEN plugins' ELSE pluginsRef
    /\ pending' = <<>>
    /\ UNCHANGED <<mounted, last, slotIn, tree, i18nVars, tasks, batch>>

\* a call settles
Settle(id, outcome, updates) ==
    /\ tasks' = [tasks EXCEPT ![id].pc = "settled", ![id].outcome = outcome]
    /\ pending' = pending \o updates
    /\ last' = Settled(tasks'[id])

\* PluginRegistryProvider.tsx: loadPluginFromManifest up to its first await
\* loadPluginFromManifest, were the setState calls made before the await of
\* onInit
loadPluginFromManifest_call_eager(module) ==
    LET manifest == module.manifest
        id == Len(tasks) + 1
        task == Task("load", manifest.name, Some(manifest),
                     module.components, "settled", "", FALSE)
    IN  /\ mounted = "plugin"
        /\ Len(tasks) < MaxCalls
        /\ IF MapHas(pluginsRef, manifest.name)
           THEN /\ tasks' = Append(tasks, [task EXCEPT !.outcome = "duplicate"])
                /\ pending' = pending
                /\ last' = Settled(tasks'[id])
           ELSE IF manifest.onInit
           THEN /\ tasks' = Append(tasks, [task EXCEPT !.pc = "onInit",
                                                       !.hook = TRUE])
                /\ pending' = pending \o loadUpdates(id, manifest)
                /\ UNCHANGED last
           ELSE /\ tasks' = Append(tasks, [task EXCEPT !.outcome = "loaded"])
                /\ pending' = pending \o loadUpdates(id, manifest)
                /\ last' = Settled(tasks'[id])
        /\ UNCHANGED <<mounted, registryVars, slotIn, tree, i18nVars, batch>>

loadPluginFromManifest_call(module) ==
    LET manifest == module.manifest
        id == Len(tasks) + 1
        task == Task("load", manifest.name, Some(manifest),
                     module.components, "settled", "", FALSE)
    IN  /\ mounted = "plugin"
        /\ Len(tasks) < MaxCalls
        /\ IF MapHas(pluginsRef, manifest.name)
           THEN /\ tasks' = Append(tasks, [task EXCEPT !.outcome = "duplicate"])
                /\ pending' = pending
                /\ last' = Settled(tasks'[id])
           ELSE IF manifest.onInit
           THEN /\ tasks' = Append(tasks, [task EXCEPT !.pc = "onInit",
                                                       !.hook = TRUE])
                /\ UNCHANGED <<pending, last>>
           ELSE /\ tasks' = Append(tasks, [task EXCEPT !.outcome = "loaded"])
                /\ pending' = pending \o loadUpdates(id, manifest)
                /\ last' = Settled(tasks'[id])
        /\ UNCHANGED <<mounted, registryVars, slotIn, tree, i18nVars, batch>>

\* ... and from the moment onInit settles
loadPluginFromManifest_resume(id, hook) ==
    /\ mounted = "plugin"
    /\ tasks[id].op = "load"
    /\ tasks[id].pc = "onInit"
    /\ IF hook = "throws" THEN Settle(id, "initFailed", <<>>)
       ELSE Settle(id, "loaded", loadUpdates(id, tasks[id].manifest[1]))
    /\ UNCHANGED <<mounted, registryVars, slotIn, tree, i18nVars, batch>>

\* PluginRegistryProvider.tsx: unloadPlugin up to its first await
unloadPlugin_call(pluginId) ==
    LET id == Len(tasks) + 1
        found == MapHas(pluginsRef, pluginId)
        manifest == MapGet(pluginsRef, pluginId)
    IN  /\ mounted = "plugin"
        /\ Len(tasks) < MaxCalls
        /\ IF ~found
           THEN /\ tasks' = Append(tasks, Task("unload", pluginId, Absent,
                                               EmptyBundle, "settled",
                                               "absent", FALSE))
                /\ pending' = pending
                /\ last' = Settled(tasks'[id])
           ELSE IF manifest.onDestroy
           THEN /\ tasks' = Append(tasks, Task("unload", pluginId,
                                               Some(manifest), EmptyBundle,
                                               "onDestroy", "", TRUE))
                /\ UNCHANGED <<pending, last>>
           ELSE /\ tasks' = Append(tasks, Task("unload", pluginId,
                                               Some(manifest), EmptyBundle,
                                               "settled", "unloaded", FALSE))
                /\ pending' = pending \o unloadUpdates(id, manifest)
                /\ last' = Settled(tasks'[id])
        /\ UNCHANGED <<mounted, registryVars, slotIn, tree, i18nVars, batch>>

\* ... and from the moment onDestroy settles
unloadPlugin_resume(id, hook) ==
    /\ mounted = "plugin"
    /\ tasks[id].op = "unload"
    /\ tasks[id].pc = "onDestroy"
    /\ Settle(id, IF hook = "throws" THEN "destroyFailed" ELSE "unloaded",
              unloadUpdates(id, tasks[id].manifest[1]))
    /\ UNCHANGED <<mounted, registryVars, slotIn, tree, i18nVars, batch>>

\* react.tsx: registerPlugin up to its first await
registerPlugin_call(module) ==
    LET manifest == module.manifest
        id == Len(tasks) + 1
        task == Task("load", manifest.name, Some(manifest),
                     module.components, "settled", "", FALSE)
    IN  /\ mounted = "react"
        /\ Len(tasks) < MaxCalls
        /\ IF manifest.onInit
           THEN /\ tasks' = Append(tasks, [task EXCEPT !.pc = "onInit",
                                                       !.hook = TRUE])
                /\ UNCHANGED <<pending, last>>
           ELSE /\ tasks' = Append(tasks, [task EXCEPT !.outcome = "loaded"])
                /\ pending' = pending \o registerUpdates(id, manifest)
                /\ last' = Settled(tasks'[id])
        /\ UNCHANGED <<mounted, registryVars, slotIn, tree, i18nVars, batch>>

registerPlugin_resume(id, hook) ==
    /\ mounted = "react"
    /\ tasks[id].op = "load"
    /\ tasks[id].pc = "onInit"
    /\ IF hook = "throws" THEN Settle(id, "initFailed", <<>>)
       ELSE Settle(id, "loaded", registerUpdates(id, tasks[id].manifest[1]))
    /\ UNCHANGED <<mounted, registryVars, slotIn, tree, i18nVars, batch>>

\* react.tsx: unregisterPlugin up to its first await; `plugins` is the state
\* of the render that made the callback
unregisterPlugin_call(pluginName) ==
    LET id == Len(tasks) + 1
        found == MapHas(plugins, pluginName)
        plugin == MapGet(plugins, pluginName)
    IN  /\ mounted = "react"
        /\ Len(tasks) < MaxCalls
        /\ IF ~found
           THEN /\ tasks' = Append(tasks, Task("unload", pluginName, Absent,
                                               EmptyBundle, "settled",
                                               "absent", FALSE))
                /\ pending' = pending
                /\ last' = Settled(tasks'[id])
           ELSE IF plugin.onDestroy
           THEN /\ tasks' = Append(tasks, Task("unload", pluginName,
                                               Some(plugin), EmptyBundle,
                                               "onDestroy", "", TRUE))
                /\ UNCHANGED <<pending, last>>
           ELSE /\ tasks' = Append(tasks, Task("unload", pluginName,
                                               Some(plugin), EmptyBundle,
                                               "settled", "unloaded", FALSE))
                /\ pending' = pending \o unregisterUpdates(id, plugin)
                /\ last' = Settled(tasks'[id])
        /\ UNCHANGED <<mounted, registryVars, slotIn, tree, i18nVars, batch>>

unregisterPlugin_resume(id, hook) ==
    /\ mounted = "react"
    /\ tasks[id].op = "unload"
    /\ tasks[id].pc = "onDestroy"
    /\ Settle(id, IF hook = "throws" THEN "destroyFailed" ELSE "unloaded",
              unregisterUpdates(id, tasks[id].manifest[1]))
    /\ UNCHANGED <<mounted, registryVars, slotIn, tree, i18nVars, batch>>

NextAsync ==
    \/ \E module \in Modules : loadPluginFromManifest_call(module)
    \/ \E id \in 1..Len(tasks), hook \in Hooks :
           loadPluginFromManifest_resume(id, hook)
    \/ \E pluginId \in Names : unloadPlugin_call(pluginId)
    \/ \E id \in 1..Len(tasks), hook \in Hooks : unloadPlugin_resume(id, hook)
    \/ \E module \in Modules : registerPlugin_call(module)
    \/ \E id \in 1..Len(tasks), hook \in Hooks :
           registerPlugin_resume(id, hook)
    \/ \E pluginName \in Names : unregisterPlugin_call(pluginName)
    \/ \E id \in 1..Len(tasks), hook \in Hooks :
           unregisterPlugin_resume(id, hook)
    \/ render

SpecAsync == Init /\ [][NextAsync]_vars

----------------------------------------------------------------------------
(* Loading a list of plugins: loadAllPlugins of PluginRegistryProvider.tsx *)
(* and the effect of PluginLoader.  An entry of the list is the module its *)
(* URL resolves to, absent when the import fails.                          *)

Entries == {Some(module) : module \in GivenModules} \cup {Absent}

EntryLists == UNION {[1..n -> Entries] : n \in 0..MaxEntries}

\* the load of an entry whose module is not known yet
EntryTask(i, pc) ==
    [Task("load", "", Absent, EmptyBundle, pc, "", FALSE) EXCEPT !.entry = i]

\* the module of the entry is known
Imported(task, module) ==
    [task EXCEPT !.name = module.manifest.name,
                 !.manifest = Some(module.manifest),
                 !.ref = module.manifest.ref,
                 !.components = IF "components" \in DOMAIN module
                                THEN module.components ELSE EmptyBundle]

\* the outcomes with which the promise of a load is rejected
Rejections == {"importFailed", TypeErrorName}

\* the promise of the batch: Promise.all rejects with the first rejected
\* load and is fulfilled when every load is; nothing catches a rejection
promise ==
    IF batch.pc # "loading" THEN batch.pc
    ELSE IF \E id \in 1..Len(tasks) :
                tasks[id].entry > 0 /\ tasks[id].outcome \in Rejections
         THEN "rejected"
         ELSE IF \A id \in 1..Len(tasks) :
                    tasks[id].entry > 0 => tasks[id].pc = "settled"
              THEN "fulfilled"
              ELSE "loading"

\* loadAllPlugins to the await of apiClient.GET('/plugins/active')
loadAllPlugins_call ==
    /\ mounted = "plugin"
    /\ batch.pc = "idle"
    /\ batch' = [batch EXCEPT !.pc = "GET"]
    /\ UNCHANGED <<mounted, registryVars, last, slotIn, tree, i18nVars,
                   tasks, pending>>

\* ... and from there: the call is rejected ("throws"), returns an error
\* ("error") or returns the list; every load of the list starts and waits
\* for its import
loadAllPlugins_resume(response, pluginList) ==
    /\ mounted = "plugin"
    /\ batch.pc = "GET"
    /\ IF response = "throws"
       THEN /\ batch' = [batch EXCEPT !.pc = "rejected", !.response = response]
            /\ UNCHANGED tasks
       ELSE IF response = "error"
       THEN /\ batch' = [batch EXCEPT !.pc = "fulfilled",
                                      !.response = response]
            /\ UNCHANGED tasks
       ELSE /\ batch' = [pc |-> "loading", response |-> response,
                         entries |-> pluginList]
            /\ tasks' = tasks \o [i \in 1..Len(pluginList) |->
                                     EntryTask(i, "import")]
    /\ UNCHANGED <<mounted, registryVars, last, slotIn, tree, i18nVars,
                   pending>>

\* loadPluginFromUrl from the moment import(url) settles, through
\* loadPluginFromModule, to the first await of loadPluginFromManifest
loadPluginFromUrl_resume(id) ==
    LET entry == batch.entries[tasks[id].entry]
        task == Imported(tasks[id], entry[1])
        manifest == entry[1].manifest
    IN  /\ mounted = "plugin"
        /\ tasks[id].pc = "import"
        /\ IF ~Has(entry) THEN Settle(id, "importFailed", <<>>)
           ELSE IF "manifest" \notin DOMAIN entry[1]
           THEN Settle(id, TypeErrorName, <<>>)
           ELSE IF MapHas(pluginsRef, manifest.name)
           THEN /\ tasks' = [tasks EXCEPT ![id] =
                                [task EXCEPT !.pc = "settled",
                                             !.outcome = "duplicate"]]
                /\ pending' = pending
                /\ last' = Settled(tasks'[id])
           ELSE IF manifest.onInit
           THEN /\ tasks' = [tasks EXCEPT ![id] =
                                [task EXCEPT !.pc = "onInit", !.hook = TRUE]]
                /\ UNCHANGED <<pending, last>>
           ELSE /\ tasks' = [tasks EXCEPT ![id] =
                                [task EXCEPT !.pc = "settled",
                                             !.outcome = "loaded"]]
                /\ pending' = pending \o loadUpdates(id, manifest)
                /\ last' = Settled(tasks'[id])
        /\ UNCHANGED <<mounted, registryVars, slotIn, tree, i18nVars, batch>>

\* PluginLoader: plugins.map(async (plugin) => ...): the callbacks run one
\* after the other, each to its first await, with its error caught
RECURSIVE mapLoadPlugins(_, _, _, _)
mapLoadPlugins(list, i, calls, queue) ==
    IF i > Len(list) THEN [tasks |-> calls, pending |-> queue]
    ELSE LET plugin == list[i][1]
             id == Len(calls) + 1
             task == EntryTask(i, "settled")
         IN  IF "manifest" \notin DOMAIN plugin
             THEN mapLoadPlugins(list, i + 1,
                      Append(calls, [task EXCEPT !.outcome = NoManifestError]),
                      queue)
             ELSE IF "components" \notin DOMAIN plugin
             THEN mapLoadPlugins(list, i + 1,
                      Append(calls, [Imported(task, plugin) EXCEPT
                                        !.outcome = NoComponentsError]),
                      queue)
             ELSE IF plugin.manifest.onInit
             THEN mapLoadPlugins(list, i + 1,
                      Append(calls, [Imported(task, plugin) EXCEPT
                                        !.pc = "onInit", !.hook = TRUE]),
                      queue)
             ELSE mapLoadPlugins(list, i + 1,
                      Append(calls, [Imported(task, plugin) EXCEPT
                                        !.outcome = "loaded"]),
                      queue \o registerUpdates(id, plugin.manifest))

\* PluginLoader: the effect
PluginLoader(list) ==
    LET started == mapLoadPlugins(list, 1, tasks, pending)
        settled == {id \in 1..Len(started.tasks) :
                       started.tasks[id].pc = "settled"}
    IN  /\ mounted = "react"
        /\ batch.pc = "idle"
        /\ \A i \in 1..Len(list) : Has(list[i])
        /\ batch' = [pc |-> "loading", response |-> "", entries |-> list]
        /\ tasks' = started.tasks
        /\ pending' = started.pending
        /\ last' = IF settled = {} THEN last
                   ELSE Settled(started.tasks[CHOOSE id \in settled :
                                    \A other \in settled : other <= id])
        /\ UNCHANGED <<mounted, registryVars, slotIn, tree, i18nVars>>

NextLoader ==
    \/ loadAllPlugins_call
    \/ \E response \in {"throws", "error", "data"},
          pluginList \in EntryLists :
           loadAllPlugins_resume(response, pluginList)
    \/ \E id \in 1..Len(tasks) : loadPluginFromUrl_resume(id)
    \/ \E id \in 1..Len(tasks), hook \in Hooks :
           loadPluginFromManifest_resume(id, hook)
    \/ \E list \in EntryLists : PluginLoader(list)
    \/ \E id \in 1..Len(tasks), hook \in Hooks :
           registerPlugin_resume(id, hook)
    \/ render

SpecLoader == Init /\ [][NextLoader]_vars

----------------------------------------------------------------------------
(* <Slot>.  A React node is a record: its type, the component that         *)
(* implements it, the descriptor it renders and its children.              *)

Node(type, impl, slot, children) ==
    [type |-> type, impl |-> impl, slot |-> slot, children |-> children]

Null == Node("null", "", "", <<>>)

Reverse(list) == [i \in 1..Len(list) |-> list[Len(list) + 1 - i]]

Map(list, F(_)) == [i \in 1..Len(list) |-> F(list[i])]

WithPosition(slots, position) ==
    SelectSeq(slots, LAMBDA s : s.position = position)

\* react.tsx (first half): each fragment inside a PluginErrorBoundary
renderSlot(slot) ==
    IF slot.component \notin DOMAIN components THEN Null
    ELSE Node("PluginErrorBoundary", "", slot.ref,
              << Node("component", components[slot.component], slot.ref,
                      <<>>) >>)

\* applyWrap, were the first entry of the list it is given the outermost
RECURSIVE applyWrap_inward(_, _)
applyWrap_inward(wrapSlots, inner) ==
    IF wrapSlots = <<>> THEN inner
    ELSE LET slot == Head(wrapSlots)
             wrapped == applyWrap_inward(Tail(wrapSlots), inner)
         IN  IF slot.component \in DOMAIN components
             THEN Node("PluginErrorBoundary", "", slot.ref,
                       << Node("component", components[slot.component],
                               slot.ref, <<wrapped>>) >>)
             ELSE wrapped

\* wrapSlots.reverse().forEach(...): `wrapSlots` is the reversed list
RECURSIVE applyWrap(_, _)
applyWrap(wrapSlots, inner) ==
    IF wrapSlots = <<>> THEN inner
    ELSE LET slot == Head(wrapSlots)
         IN  applyWrap(Tail(wrapSlots),
                 IF slot.component \in DOMAIN components
                 THEN Node("PluginErrorBoundary", "", slot.ref,
                           << Node("component", components[slot.component],
                                   slot.ref, <<inner>>) >>)
                 ELSE inner)

\* content, were the replace entries added to the normal flow
content_keepsChildren(slots, children) ==
    LET replaceSlots == WithPosition(slots, "replace")
        beforeSlots == WithPosition(slots, "before")
        afterSlots == WithPosition(slots, "after")
    IN  Node("fragment", "", "",
             Map(beforeSlots, renderSlot)
             \o Map(replaceSlots, renderSlot)
             \o << Node("children", children, "", <<>>) >>
             \o Map(afterSlots, renderSlot))

\* the content before the wrappers are applied
content(slots, children) ==
    LET replaceSlots == WithPosition(slots, "replace")
        beforeSlots == WithPosition(slots, "before")
        afterSlots == WithPosition(slots, "after")
    IN  IF Len(replaceSlots) > 0
        THEN Node("array", "", "", Map(replaceSlots, renderSlot))
        ELSE Node("fragment", "", "",
                  Map(beforeSlots, renderSlot)
                  \o << Node("children", children, "", <<>>) >>
                  \o Map(afterSlots, renderSlot))

\* compose, were the append entries placed inside the container
compose_appendInside(slots, children) ==
    LET wrapSlots == WithPosition(slots, "wrap")
        prependSlots == WithPosition(slots, "prepend")
        appendSlots == WithPosition(slots, "append")
    IN  Node("fragment", "", "",
             Map(prependSlots, renderSlot)
             \o << Node("Container", "", "",
                        << applyWrap(Reverse(wrapSlots),
                                     content(slots, children)) >>
                        \o Map(appendSlots, renderSlot)) >>)

\* the body of Slot from the grouping by position to the returned tree
compose(slots, children) ==
    LET wrapSlots == WithPosition(slots, "wrap")
        prependSlots == WithPosition(slots, "prepend")
        appendSlots == WithPosition(slots, "append")
    IN  Node("fragment", "", "",
             Map(prependSlots, renderSlot)
             \o << Node("Container", "", "",
                        << applyWrap(Reverse(wrapSlots),
                                     content(slots, children)) >>) >>
             \o Map(appendSlots, renderSlot))

Slot(name, children, context) == compose(getSlots(name, context), children)

\* react.tsx (second half): the fragments are rendered bare
renderSlot_react(slot) ==
    IF slot.component \notin DOMAIN components THEN Null
    ELSE Node("component", components[slot.component], slot.ref, <<>>)

RECURSIVE applyWrap_react(_, _)
applyWrap_react(wrapSlots, inner) ==
    IF wrapSlots = <<>> THEN inner
    ELSE LET slot == Head(wrapSlots)
         IN  applyWrap_react(Tail(wrapSlots),
                 IF slot.component \in DOMAIN components
                 THEN Node("component", components[slot.component],
                           slot.ref, <<inner>>)
                 ELSE inner)

content_react(slots, children) ==
    LET replaceSlots == WithPosition(slots, "replace")
        beforeSlots == WithPosition(slots, "before")
        afterSlots == WithPosition(slots, "after")
    IN  IF Len(replaceSlots) > 0
        THEN Node("array", "", "", Map(replaceSlots, renderSlot_react))
        ELSE Node("fragment", "", "",
                  Map(beforeSlots, renderSlot_react)
                  \o << Node("children", children, "", <<>>) >>
                  \o Map(afterSlots, renderSlot_react))

compose_react(slots, children) ==
    LET wrapSlots == WithPosition(slots, "wrap")
        prependSlots == WithPosition(slots, "prepend")
        appendSlots == WithPosition(slots, "append")
    IN  Node("fragment", "", "",
             Map(prependSlots, renderSlot_react)
             \o << Node("Container", "", "",
                        << applyWrap_react(Reverse(wrapSlots),
                                     content_react(slots, children)) >>) >>
             \o Map(appendSlots, renderSlot_react))

Slot_react(name, children, context) ==
    compose_react(getSlots_react(name, context), children)

----------------------------------------------------------------------------
(* Specification of <Slot>: one plugin is registered, whose slots list is  *)
(* any list of at most MaxSlots descriptors of the slot "panel"; the       *)
(* bundle has any of the component keys.                                   *)

SlotRefs == << "s1", "s2", "s3", "s4", "s5" >>

ComponentKeys == {"A", "B"}

Children == {"D1", "D2"}

PanelSlots(positions, keys) ==
    [i \in 1..Len(positions) |->
        SlotConfig(SlotRefs[i], "panel", positions[i], keys[i], Absent,
                   Absent)]

PanelPlugin(slots) ==
    [ref |-> "panel@1", name |-> "panel", slots |-> Some(slots),
     routes |-> Absent, components |-> Absent, onInit |-> FALSE,
     onDestroy |-> FALSE, enabled |-> Absent, translations |-> Absent]

InitSlot ==
    /\ mounted \in {"plugin", "react"}
    /\ \E n \in 0..MaxSlots :
         \E positions \in [1..n -> Positions], keys \in [1..n -> ComponentKeys] :
            plugins = << PanelPlugin(PanelSlots(positions, keys)) >>
    /\ pluginsRef = IF mounted = "plugin" THEN plugins ELSE <<>>
    /\ \E present \in SUBSET ComponentKeys :
            components = [k \in present |-> k]
    /\ routes = <<>>
    /\ enabledPlugins = IF mounted = "react" THEN {"panel"} ELSE {}
    /\ translations = defaultTranslations
    /\ last = Call("init", "", "", "", FALSE, FALSE, Absent)
    /\ slotIn = NoSlot
    /\ tree = <<>>
    /\ defaultLocale = "en"
    /\ locale = defaultLocale
    /\ said = NoLookup
    /\ tasks = <<>>
    /\ pending = <<>>
    /\ batch = NoBatch

\* a render of <Slot name="panel" context={context}>{children}</Slot>
Render(children, context) ==
    /\ slotIn' = [name |-> "panel", children |-> children,
                  context |-> context, throws |-> {}]
    /\ tree' = << IF mounted = "plugin"
                  THEN Slot("panel", children, context)
                  ELSE Slot_react("panel", children, context) >>
    /\ UNCHANGED <<mounted, plugins, pluginsRef, components, routes,
                   enabledPlugins, translations, last, i18nVars, asyncVars>>

NextSlot == \E children \in Children : Render(children, "undefined")

SpecSlot == InitSlot /\ [][NextSlot]_vars

----------------------------------------------------------------------------
(* <Slot> under a registry that changes: a render is a call of getSlots    *)
(* and the composition of its result.  Array.prototype.sort and reverse    *)
(* work in place: what they do to the plugin map is part of the step.      *)

\* getSlots, were it to sort plugin.slots itself
arraysAfterGetSlots_inPlace(slotName, context) ==
    [i \in 1..Len(plugins) |->
        IF Has(plugins[i].slots)
        THEN [plugins[i] EXCEPT !.slots = Some(sort(plugins[i].slots[1]))]
        ELSE plugins[i]]

\* the plugin map after getSlots and Slot: filter returns a new array;
\* push and sort act on the array `slots` of the call, reverse on the
\* array wrapSlots that filter returned
arraysAfterGetSlots(slotName, context) == plugins

\* a render of <Slot name={name} context={context}>{children}</Slot>
RenderSlot(name, children, context) ==
    /\ slotIn' = [name |-> name, children |-> children,
                  context |-> context, throws |-> {}]
    /\ tree' = << IF mounted = "plugin"
                  THEN Slot(name, children, context)
                  ELSE Slot_react(name, children, context) >>
    /\ plugins' = arraysAfterGetSlots(name, context)
    /\ last' = Call("render", name, "", "", FALSE, FALSE,
                    Some([name |-> name,
                          resolved |-> resolve(name, context)]))
    /\ UNCHANGED <<mounted, pluginsRef, components, routes, enabledPlugins,
                   translations, i18nVars, asyncVars>>

NextResolve ==
    \/ \E module \in Modules : loadPluginFromManifest(module, "ok")
    \/ \E module \in Modules : registerPlugin(module, "ok")
    \/ \E name \in Names : enablePlugin(name)
    \/ \E name \in Names : disablePlugin(name)
    \/ \E name \in SlotNames, context \in {"undefined", "admin"} :
           RenderSlot(name, "D1", context)

SpecResolve == Init /\ [][NextResolve]_vars

----------------------------------------------------------------------------
(* What React paints of an element tree when the render of the components  *)
(* of `throws` throws: an error goes up to the nearest PluginErrorBoundary *)
(* above it, which then renders null; null paints nothing.                 *)

Thrown == Node("thrown", "", "", <<>>)

RECURSIVE paint(_, _)
paint(node, throws) ==
    IF node.type = "component" /\ node.impl \in throws THEN Thrown
    ELSE LET kids == SelectSeq(Map(node.children,
                                   LAMBDA child : paint(child, throws)),
                               LAMBDA kid : kid # Null)
         IN  IF \E i \in 1..Len(kids) : kids[i] = Thrown
             THEN IF node.type = "PluginErrorBoundary" THEN Null ELSE Thrown
             ELSE Node(node.type, node.impl, node.slot, kids)

\* a render of <Slot name="panel">{children}</Slot> in which the components
\* of `throws` throw: the element tree, and what is painted of it
Paint(children, throws) ==
    /\ slotIn' = [name |-> "panel", children |-> children,
                  context |-> "undefined", throws |-> throws]
    /\ LET element == IF mounted = "plugin"
                      THEN Slot("panel", children, "undefined")
                      ELSE Slot_react("panel", children, "undefined")
       IN  tree' = << element, paint(element, throws) >>
    /\ UNCHANGED <<mounted, plugins, pluginsRef, components, routes,
                   enabledPlugins, translations, last, i18nVars, asyncVars>>

NextPaint ==
    \E throws \in SUBSET ComponentKeys : Paint("D1", throws)

SpecPaint == InitSlot /\ [][NextPaint]_vars

----------------------------------------------------------------------------
(* Properties *)

AllSlotNames == SlotNames \cup {"panel"}

ModuleOf(ref) == CHOOSE module \in Modules : module.manifest.ref = ref

\* the refs of the descriptors of a manifest
RefsOf(manifest) ==
    IF Has(manifest.slots)
    THEN {manifest.slots[1][k].ref : k \in 1..Len(manifest.slots[1])}
    ELSE {}

\* every descriptor of a registered plugin, with its owner and its place
OwnedSlots ==
    UNION {{[owner |-> plugins[p].name, plugin |-> p, index |-> k,
             slot |-> plugins[p].slots[1][k]] :
                k \in 1..Len(plugins[p].slots[1])} :
           p \in {q \in 1..Len(plugins) : Has(plugins[q].slots)}}

Owned(ref) == CHOOSE o \in OwnedSlots : o.slot.ref = ref

\* the enabled set of the specification: enabledPlugins where the provider
\* keeps one, the plugins not registered with enabled === false otherwise
Enabled ==
    IF mounted = "react" THEN enabledPlugins
    ELSE {plugins[p].name : p \in {q \in 1..Len(plugins) :
                                      plugins[q].enabled # Some(FALSE)}}

Applicable(slotName, context) ==
    {o \in OwnedSlots :
        /\ o.slot.name = slotName
        /\ (~Has(o.slot.condition) \/ condition(o.slot, context))
        /\ o.owner \in Enabled}

Refs(list) == {list[i].ref : i \in 1..Len(list)}

\* C1: resolve(S, ctx) returns exactly the descriptors of registered plugins
\* whose name is S, whose condition is absent or true for ctx and whose
\* plugin is enabled; no descriptor of a disabled plugin is returned.
C1_ResolveExactlyEnabled ==
    \A slotName \in AllSlotNames, context \in Contexts :
        LET resolved == resolve(slotName, context)
            expected == {o.slot.ref : o \in Applicable(slotName, context)}
        IN  /\ Refs(resolved) = expected
            /\ Len(resolved) = Cardinality(expected)

\* a comes before b: higher priority, or equal priority and registered
\* earlier, or the same plugin and earlier in its slots list
ComesBefore(a, b) ==
    \/ priority(a) > priority(b)
    \/ /\ priority(a) = priority(b)
       /\ \/ Owned(a.ref).plugin < Owned(b.ref).plugin
          \/ /\ Owned(a.ref).plugin = Owned(b.ref).plugin
             /\ Owned(a.ref).index < Owned(b.ref).index

\* C2: the list resolve returns is in descending priority (absent counts as
\* 0); equal priorities are in registration order of the plugin, then in the
\* order of the plugin's slots list.
C2_ResolveOrder ==
    \A slotName \in AllSlotNames, context \in Contexts :
        LET resolved == resolve(slotName, context)
        IN  \A i, j \in 1..Len(resolved) :
                i < j => ComesBefore(resolved[i], resolved[j])

\* a list in which the sort moved a later registration ahead of an earlier
\* one, and kept two plugins of equal priority (one absent, one 0) in
\* registration order
C2_Witness ==
    \E slotName \in SlotNames, context \in Contexts :
        LET resolved == resolve(slotName, context)
        IN  /\ \E i, j \in 1..Len(resolved) :
                 /\ i < j
                 /\ Owned(resolved[i].ref).plugin > Owned(resolved[j].ref).plugin
            /\ \E i, j \in 1..Len(resolved) :
                 /\ i < j
                 /\ priority(resolved[i]) = priority(resolved[j])
                 /\ Owned(resolved[i].ref).plugin < Owned(resolved[j].ref).plugin
                 /\ ~Has(resolved[i].priority)

\* C3: a register whose onInit throws leaves plugins, enabled, bundle,
\* routes and translations as they were and does not add the plugin.
C3_InitFailureAborts ==
    [][(last'.op = "load" /\ last'.outcome = "initFailed")
        => /\ UNCHANGED registryVars
           /\ (~MapHas(plugins, last'.name) => ~MapHas(plugins', last'.name))
      ]_vars

C3_Witness ==
    /\ last.op = "load"
    /\ last.outcome = "initFailed"
    /\ last.onInit
    /\ Len(plugins) > 0
    /\ ~MapHas(plugins, last.name)

\* C4: a register of a name that is already registered does nothing: onInit
\* is not invoked and plugins, enabled, bundle, routes and translations are
\* unchanged.
C4_DuplicateRegisterIgnored ==
    [][(last'.op = "load" /\ MapHas(plugins, last'.name))
        => /\ UNCHANGED registryVars
           /\ ~last'.onInit
      ]_vars

\* C5: after unregister(name) of a registered plugin, name is in neither
\* plugins nor enabled, and no bundle key, route or translation key that the
\* plugin contributed at registration remains.
C5_UnregisterRemovesContributions ==
    (last.op = "unload" /\ last.outcome \in {"unloaded", "destroyFailed"})
    => LET module == ModuleOf(last.ref)
           manifest == module.manifest
       IN  /\ ~MapHas(plugins, last.name)
           /\ last.name \notin enabledPlugins
           /\ DOMAIN module.components \cap DOMAIN components = {}
           /\ (mounted = "plugin" /\ Has(manifest.routes))
              => \A i \in 1..Len(manifest.routes[1]) :
                    \A j \in 1..Len(routes) : routes[j] # manifest.routes[1][i]
           /\ (mounted = "plugin" /\ Has(manifest.translations))
              => \A loc \in DOMAIN manifest.translations[1] :
                    loc \in DOMAIN translations
                    => DOMAIN manifest.translations[1][loc]
                       \cap DOMAIN translations[loc] = {}

\* C6: register(M) of a manifest that was not registered, followed at once by
\* unregister(M.name), restores the bundle, the route list and the
\* translation table to what they were before the register.
C6_RoundTripRestores ==
    (last.op = "unload" /\ Has(last.rt)) => Snapshot = last.rt[1].pre

\* C7: when onDestroy throws, the plugin is removed all the same: from
\* plugins, from enabled, from the routes and from the translations (the
\* provider of react.tsx keeps neither routes nor translations).
C7_DestroyFailureStillRemoves ==
    (last.op = "unload" /\ last.outcome = "destroyFailed")
    => LET manifest == ModuleOf(last.ref).manifest
       IN  /\ last.onDestroy
           /\ ~MapHas(plugins, last.name)
           /\ ~MapHas(pluginsRef, last.name)
           /\ last.name \notin enabledPlugins
           /\ (mounted = "plugin" /\ Has(manifest.routes))
              => \A i \in 1..Len(manifest.routes[1]) :
                    \A j \in 1..Len(routes) : routes[j] # manifest.routes[1][i]
           /\ (mounted = "plugin" /\ Has(manifest.translations))
              => \A loc \in DOMAIN manifest.translations[1] :
                    loc \in DOMAIN translations
                    => DOMAIN manifest.translations[1][loc]
                       \cap DOMAIN translations[loc] = {}

\* onDestroy of a plugin with routes and translations threw, while another
\* plugin stays registered
C7_Witness ==
    /\ last.op = "unload"
    /\ last.outcome = "destroyFailed"
    /\ mounted = "plugin"
    /\ Has(ModuleOf(last.ref).manifest.routes)
    /\ Has(ModuleOf(last.ref).manifest.translations)
    /\ Len(plugins) > 0

\* C8: after a successful register, the name is in the enabled set exactly
\* when manifest.enabled is not false, and a plugin registered with
\* enabled === false has no descriptor in any resolve result.
C8_EnabledByDefaultUnlessFalse ==
    (last.op = "load" /\ last.outcome = "loaded")
    => LET manifest == ModuleOf(last.ref).manifest
       IN  /\ mounted = "react"
              => (last.name \in enabledPlugins
                    <=> manifest.enabled # Some(FALSE))
           /\ manifest.enabled = Some(FALSE)
              => \A slotName \in AllSlotNames, context \in Contexts :
                    Refs(resolve(slotName, context)) \cap RefsOf(manifest)
                        = {}

\* C9: enable(name) and disable(name) change the membership of name in the
\* enabled set and nothing else, invoke no hook, and after disable(name) no
\* descriptor of the plugin is resolved; isEnabled is the membership.
C9_EnableDisableOnlyToggle ==
    /\ [][\A name \in Names :
            (last'.op \in {"enable", "disable"} /\ last'.name = name)
            => /\ UNCHANGED <<plugins, pluginsRef, components, routes,
                              translations>>
               /\ enabledPlugins' \ {name} = enabledPlugins \ {name}
               /\ (name \in enabledPlugins') = (last'.op = "enable")
               /\ ~last'.onInit /\ ~last'.onDestroy
         ]_vars
    /\ [](last.op \in {"enable", "disable"}
           => isPluginEnabled(last.name) = (last.op = "enable"))
    /\ []((last.op = "disable" /\ MapHas(plugins, last.name))
           => \A slotName \in AllSlotNames, context \in Contexts :
                 Refs(resolve(slotName, context))
                 \cap RefsOf(MapGet(plugins, last.name)) = {})

\* a registered plugin that contributes slots has just been disabled, and
\* another plugin is still resolved
C9_Witness ==
    /\ last.op = "disable"
    /\ MapHas(plugins, last.name)
    /\ RefsOf(MapGet(plugins, last.name)) # {}
    /\ \E slotName \in SlotNames : resolve(slotName, "admin") # <<>>

\* every node of a tree, the root first
RECURSIVE Nodes(_)
Nodes(node) == <<node>> \o Concat(Map(node.children, Nodes))

\* the content under the wrappers of the container
RECURSIVE Unwrap(_)
Unwrap(node) ==
    IF node.type \in {"array", "fragment"} THEN node
    ELSE Unwrap(node.children[1])

Core(root) ==
    LET container ==
            root.children[CHOOSE i \in 1..Len(root.children) :
                             root.children[i].type = "Container"]
    IN  Unwrap(container.children[1])

\* the descriptors a list of nodes renders, "" for a skipped one
Rendered(nodes) == [i \in 1..Len(nodes) |-> nodes[i].slot]

\* C10: when the replace bucket is not empty, the core content is the
\* replace entries, in resolver order, and nothing else: neither the default
\* content nor a before or after entry is in the output.
C10_ReplaceDiscardsDefault ==
    tree # <<>>
    => LET slots == resolve(slotIn.name, slotIn.context)
           replaceSlots == WithPosition(slots, "replace")
           discarded == WithPosition(slots, "before")
                        \o WithPosition(slots, "after")
           all == Nodes(tree[1])
       IN  Len(replaceSlots) > 0
           => /\ Core(tree[1]).type = "array"
              /\ Rendered(Core(tree[1]).children)
                   = [i \in 1..Len(replaceSlots) |->
                        IF replaceSlots[i].component \in DOMAIN components
                        THEN replaceSlots[i].ref ELSE ""]
              /\ \A i \in 1..Len(all) :
                    /\ all[i].type # "children"
                    /\ all[i].slot \notin Refs(discarded)

\* a slot with a replace, a before and an after entry, all of them with
\* their component in the bundle, has been rendered
C10_Witness ==
    /\ tree # <<>>
    /\ LET slots == resolve(slotIn.name, slotIn.context)
       IN  /\ WithPosition(slots, "replace") # <<>>
           /\ WithPosition(slots, "before") # <<>>
           /\ WithPosition(slots, "after") # <<>>
           /\ \A i \in 1..Len(slots) : slots[i].component \in DOMAIN components

\* the container of a composed tree
ContainerOf(root) ==
    root.children[CHOOSE i \in 1..Len(root.children) :
                     root.children[i].type = "Container"]

\* the wrapper components from the container down to the core content
RECURSIVE Wrappers(_)
Wrappers(node) ==
    IF node.type \in {"array", "fragment", "null", "children"} THEN <<>>
    ELSE IF node.type = "component"
         THEN <<node>> \o Wrappers(node.children[1])
         ELSE Wrappers(node.children[1])

\* what a bucket renders: the descriptor, or "" where the component is
\* missing from the bundle
Shown(bucket) ==
    [i \in 1..Len(bucket) |->
        IF bucket[i].component \in DOMAIN components
        THEN bucket[i].ref ELSE ""]

\* C11: with every wrap component in the bundle, the container holds
\* W1(W2(...Wn(core))) for the wrap bucket [W1, ..., Wn] in resolver order:
\* the first wrap entry is the outermost, and each wrapper has the content
\* built so far as its only child.
C11_WrapNesting ==
    tree # <<>>
    => LET slots == resolve(slotIn.name, slotIn.context)
           wrapSlots == WithPosition(slots, "wrap")
           container == ContainerOf(tree[1])
           chain == Wrappers(container.children[1])
       IN  (\A i \in 1..Len(wrapSlots) :
                wrapSlots[i].component \in DOMAIN components)
           => /\ Len(container.children) = 1
              /\ Rendered(chain) = [i \in 1..Len(wrapSlots) |->
                                      wrapSlots[i].ref]
              /\ \A i \in 1..Len(chain) :
                    /\ chain[i].impl = components[wrapSlots[i].component]
                    /\ Len(chain[i].children) = 1
              /\ Unwrap(container.children[1]).type \in {"array", "fragment"}

\* two wrap entries with different components, both in the bundle, around a
\* third entry
C11_Witness ==
    /\ tree # <<>>
    /\ LET slots == resolve(slotIn.name, slotIn.context)
           wrapSlots == WithPosition(slots, "wrap")
       IN  /\ Len(wrapSlots) = 2
           /\ Len(slots) = 3
           /\ wrapSlots[1].component # wrapSlots[2].component
           /\ \A i \in 1..Len(slots) : slots[i].component \in DOMAIN components

\* C12: the composed tree is the prepend entries, then exactly one container
\* that holds the (possibly wrapped) core content, then the append entries,
\* each bucket in resolver order and no prepend or append entry inside the
\* container, with or without a replace entry; without one the core content
\* is the before entries, the default content, the after entries.
C12_TreeShape ==
    tree # <<>>
    => LET slots == resolve(slotIn.name, slotIn.context)
           root == tree[1]
           prependSlots == WithPosition(slots, "prepend")
           appendSlots == WithPosition(slots, "append")
           beforeSlots == WithPosition(slots, "before")
           afterSlots == WithPosition(slots, "after")
           container == ContainerOf(root)
           all == Nodes(root)
           inside == Nodes(container)
           core == Core(root)
       IN  /\ root.type = "fragment"
           /\ Rendered(root.children)
                = Shown(prependSlots) \o <<"">> \o Shown(appendSlots)
           /\ root.children[Len(prependSlots) + 1].type = "Container"
           /\ Cardinality({i \in 1..Len(all) : all[i].type = "Container"}) = 1
           /\ Len(container.children) = 1
           /\ \A i \in 1..Len(inside) :
                 inside[i].slot \notin Refs(prependSlots \o appendSlots)
           /\ WithPosition(slots, "replace") = <<>>
              => /\ core.type = "fragment"
                 /\ Rendered(core.children)
                      = Shown(beforeSlots) \o <<"">> \o Shown(afterSlots)
                 /\ core.children[Len(beforeSlots) + 1]
                      = Node("children", slotIn.children, "", <<>>)

\* a prepend, a wrap and an append entry, in another order in the slots
\* list, all with their component in the bundle
C12_Witness ==
    /\ tree # <<>>
    /\ LET slots == resolve(slotIn.name, slotIn.context)
       IN  /\ Len(slots) = 3
           /\ slots[1].position = "append"
           /\ slots[2].position = "wrap"
           /\ slots[3].position = "prepend"
           /\ \A i \in 1..Len(slots) : slots[i].component \in DOMAIN components

\* C13: when the render of contributed fragments throws (any position, wrap
\* included), nothing reaches the host and only those fragments are missing
\* from what is painted: the container, the default content and every other
\* fragment that the slot renders are painted (the <Slot> with the
\* PluginErrorBoundary).
C13_FragmentFailureIsolated ==
    (Len(tree) = 2 /\ mounted = "plugin")
    => LET rendered == Nodes(tree[1])
           painted == Nodes(tree[2])
       IN  /\ tree[2] # Thrown
           /\ \A i \in 1..Len(rendered) :
                 (\/ rendered[i].type \in {"Container", "children"}
                  \/ /\ rendered[i].type = "component"
                     /\ rendered[i].impl \notin slotIn.throws)
                 => \E j \in 1..Len(painted) :
                       /\ painted[j].type = rendered[i].type
                       /\ painted[j].impl = rendered[i].impl
                       /\ painted[j].slot = rendered[i].slot

\* C14: a descriptor whose component is not in the bundle is skipped: what
\* is painted is what is painted of the tree composed from the resolved list
\* without that descriptor, for every position.
C14_MissingComponentSkipped ==
    tree # <<>>
    => LET slots == resolve(slotIn.name, slotIn.context)
           found == SelectSeq(slots,
                              LAMBDA s : s.component \in DOMAIN components)
           expected == IF mounted = "plugin"
                       THEN compose(found, slotIn.children)
                       ELSE compose_react(found, slotIn.children)
       IN  paint(tree[1], {}) = paint(expected, {})

\* C20: t(key) is table[locale][key] when present, otherwise
\* table[defaultLocale][key] for the default locale the provider was given,
\* otherwise the key itself, for every locale, default locale and table.
C20_LookupFallsBackToDefaultLocale ==
    (said.key # "" /\ ~Has(said.params))
    => said.value
         = Tokens(IF Has(Lookup(said.locale, said.key))
                  THEN Lookup(said.locale, said.key)[1]
                  ELSE IF Has(Lookup(defaultLocale, said.key))
                       THEN Lookup(defaultLocale, said.key)[1]
                       ELSE said.key)

\* C19: loadFromModule of a module without a manifest, or without
\* components, fails with an error that names the missing field, invokes no
\* hook and leaves the registry as it was; of a module with both it does
\* what register(manifest, components) does.
C19_LoadFromModuleValidates ==
    [][last'.op = "load"
        => /\ last'.ref = ""
              => /\ last'.outcome = NoManifestError
                 /\ ~last'.onInit
                 /\ UNCHANGED registryVars
           /\ last'.ref = BareManifest.ref
              => /\ last'.outcome = NoComponentsError
                 /\ ~last'.onInit
                 /\ UNCHANGED registryVars
           /\ last'.ref \in {module.manifest.ref : module \in Modules}
              => \E hook \in Hooks :
                    \/ loadPluginFromManifest(ModuleOf(last'.ref), hook)
                    \/ registerPlugin(ModuleOf(last'.ref), hook)
      ]_vars

\* the states for which an update of the call is in the queue
Queued(call, queue) ==
    {queue[i].set : i \in {j \in 1..Len(queue) : queue[j].call = call}}

\* C15: a render sees each register or unregister either not at all or with
\* all of its updates (plugin map, enabled set, bundle, route list): the
\* updates of a call are queued in one step, the one in which it settles,
\* and a render applies all the queued updates of a call or none.
C15_TransitionsAtomicForRenders ==
    /\ [][\A call \in 1..Len(tasks) :
            \/ Queued(call, pending') = Queued(call, pending)
            \/ Queued(call, pending) = {}
            \/ Queued(call, pending') = {}
         ]_vars
    /\ [](\A i \in 1..Len(pending) : tasks[pending[i].call].pc = "settled")

\* a render has applied the updates of a load with routes or of one that
\* enables the plugin, while another call is waiting for its hook
C15_Witness ==
    /\ pending = <<>>
    /\ \E id \in 1..Len(tasks) : tasks[id].pc # "settled"
    /\ \E id \in 1..Len(tasks) :
          /\ tasks[id].outcome = "loaded"
          /\ MapHas(plugins, tasks[id].name)
          /\ DOMAIN tasks[id].components \subseteq DOMAIN components
          /\ \/ /\ mounted = "plugin"
                /\ Has(tasks[id].manifest[1].routes)
                /\ routes # <<>>
             \/ /\ mounted = "react"
                /\ tasks[id].name \in enabledPlugins

\* C16: a call made right after an awaited call has settled sees its
\* result: register(M) after register(M) is a duplicate and invokes no hook,
\* unregister(M.name) after register(M) finds the plugin, unregister(name)
\* after unregister(name) finds nothing and does not invoke onDestroy again.
C16_AwaitedCallIsSettled ==
    \A id \in 1..Len(tasks) :
        LET task == tasks[id]
            awaited == task.after
        IN  /\ (/\ awaited.op = "load" /\ awaited.outcome = "loaded"
                /\ task.op = "load" /\ task.ref = awaited.ref)
               => (task.outcome = "duplicate" /\ ~task.hook)
            /\ (/\ awaited.op = "load" /\ awaited.outcome = "loaded"
                /\ task.op = "unload" /\ task.name = awaited.name)
               => task.outcome # "absent"
            /\ (/\ awaited.op = "unload"
                /\ awaited.outcome \in {"unloaded", "destroyFailed"}
                /\ task.op = "unload" /\ task.name = awaited.name)
               => (task.outcome = "absent" /\ ~task.hook)

\* C17: in a batch, the failure of one load (the import fails, the module
\* is invalid, onInit throws) stays with that plugin: the batch does not
\* raise, and once every load has settled and React has rendered, every
\* plugin whose own load succeeded is registered.
C17_BatchFailureContained ==
    batch.pc = "loading"
    => /\ promise # "rejected"
       /\ (/\ \A id \in 1..Len(tasks) : tasks[id].pc = "settled"
           /\ pending = <<>>)
          => \A id \in 1..Len(tasks) :
                tasks[id].outcome \in {"loaded", "duplicate"}
                => MapHas(plugins, tasks[id].name)

\* C18: when the backend call of loadAll fails, by an error result or by
\* being rejected, no plugin is loaded, the registry is as it was and
\* loadAll does not raise.
C18_FetchFailureLoadsNothing ==
    batch.response \in {"error", "throws"}
    => /\ promise = "fulfilled"
       /\ tasks = <<>>
       /\ pending = <<>>
       /\ plugins = <<>> /\ components = EmptyBundle /\ routes = <<>>
       /\ enabledPlugins = {} /\ translations = defaultTranslations

\* the value of a parameter of params, absent when params has no such entry
ParamValue(entries, token) ==
    IF \E i \in 1..Len(entries) : Token(entries[i][1]) = token
    THEN Some(entries[CHOOSE i \in 1..Len(entries) :
                          Token(entries[i][1]) = token][2])
    ELSE Absent

\* C21: with params, every occurrence of a token {{param}} of the resolved
\* string, repeated occurrences included, is replaced by the value of the
\* parameter, and every other piece of the string is left as it is.
C21_EveryOccurrenceSubstituted ==
    (said.key # "" /\ Has(said.params))
    => LET resolved == Tokens(IF Has(Lookup(said.locale, said.key))
                              THEN Lookup(said.locale, said.key)[1]
                              ELSE IF Has(Lookup("en", said.key))
                                   THEN Lookup("en", said.key)[1]
                                   ELSE said.key)
       IN  /\ Len(said.value) = Len(resolved)
           /\ \A i \in 1..Len(resolved) :
                 said.value[i] =
                    IF Has(ParamValue(said.params[1], resolved[i]))
                    THEN ParamValue(said.params[1], resolved[i])[1]
                    ELSE resolved[i]

\* the (locale, key) pairs of a table
Pairs(table) ==
    {<<loc, key>> : loc \in Locales, key \in LookupKeys} \cap
    UNION {{<<loc, key>> : key \in DOMAIN table[loc]} : loc \in DOMAIN table}

\* the step is an addTranslations(delta) that did what the claim says
Added(delta) ==
    /\ Pairs(translations') = Pairs(translations) \cup Pairs(delta)
    /\ \A pair \in Pairs(translations') :
          translations'[pair[1]][pair[2]] =
             IF pair \in Pairs(delta) THEN delta[pair[1]][pair[2]]
             ELSE translations[pair[1]][pair[2]]
    /\ locale' = locale

\* C22: after addTranslations(delta) every entry of delta is in the table
\* with the value of delta, whatever was there before; every other entry
\* of the table and the current locale are unchanged.  The same for the
\* addTranslations a successful load makes with the manifest's translations.
C22_AddTranslationsNewValueWins ==
    [][/\ \A delta \in Deltas : AddTranslations(delta) => Added(delta)
       /\ (last' # last /\ last'.op = "load" /\ last'.outcome = "loaded")
          => Added(MapGet(plugins', last'.name).translations[1])
      ]_vars

\* an addTranslations has replaced a value that was in the table
C22_Witness ==
    /\ last.op \in {"addTranslations", "load"}
    /\ Has(last.rt)
    /\ \E pair \in Pairs(last.rt[1].pre.translations) :
          /\ pair \in Pairs(translations)
          /\ translations[pair[1]][pair[2]] #
                last.rt[1].pre.translations[pair[1]][pair[2]]

\* the step is a removeTranslations(delta) that did what the claim says
Removed(delta) ==
    /\ DOMAIN translations' = DOMAIN translations
    /\ Pairs(translations') = Pairs(translations) \ Pairs(delta)
    /\ \A pair \in Pairs(translations') :
          translations'[pair[1]][pair[2]] = translations[pair[1]][pair[2]]

\* C23: removeTranslations(delta) deletes the (locale, key) pairs of delta
\* and nothing else, a locale of delta that the table does not have is
\* passed over, and no earlier value comes back: the keys of delta are
\* absent afterwards.  The same for the removeTranslations an unload makes,
\* whoever else is registered.
C23_RemoveTranslationsExactlyDelta ==
    [][/\ \A delta \in Deltas : RemoveTranslations(delta) => Removed(delta)
       /\ (last' # last /\ last'.op = "unload"
                         /\ last'.outcome = "unloaded")
          => Removed(MapGet(plugins, last'.name).translations[1])
      ]_vars

\* B was loaded over A's greeting and unloaded: the key is absent while A
\* is registered
C23_Witness ==
    /\ last.op = "unload" /\ last.name = "B" /\ last.outcome = "unloaded"
    /\ Has(last.rt)
    /\ <<"en", "greeting">> \in Pairs(last.rt[1].pre.translations)
    /\ last.rt[1].pre.translations["en"]["greeting"] = "A"
    /\ MapHas(plugins, "A")
    /\ <<"en", "greeting">> \in Pairs(MapGet(plugins, "A").translations[1])
    /\ "en" \in DOMAIN translations
    /\ <<"en", "greeting">> \notin Pairs(translations)

\* slot._pluginName ?? 'unknown': the pluginName given to the error
\* boundary of a fragment
pluginName(slot) ==
    IF "_pluginName" \in DOMAIN slot THEN slot._pluginName ELSE "unknown"

\* C25: every entry that resolve returns carries the name of the registered
\* plugin whose slots list holds the descriptor, and that is the name a
\* failure of the fragment is attributed to.
C25_EntriesCarryOwnerName ==
    \A slotName \in AllSlotNames, context \in Contexts :
        LET resolved == resolve(slotName, context)
        IN  \A i \in 1..Len(resolved) :
               /\ "_pluginName" \in DOMAIN resolved[i]
               /\ pluginName(resolved[i]) = Owned(resolved[i].ref).owner

C26_LaterBundleKeyWins ==
    [][(last' # last /\ last'.op = "load" /\ last'.outcome = "loaded")
       => LET bundle == ModuleOf(last'.ref).components
          IN  /\ MapHas(plugins', last'.name)
              /\ DOMAIN components' = DOMAIN components \cup DOMAIN bundle
              /\ \A k \in DOMAIN components' :
                    components'[k] = IF k \in DOMAIN bundle THEN bundle[k]
                                     ELSE components[k]
      ]_vars

\* the last registration replaced the implementation of a key of a plugin
\* that is still registered
C26_Witness ==
    /\ last.op = "load" /\ last.outcome = "loaded"
    /\ Has(last.rt)
    /\ \E k \in DOMAIN last.rt[1].pre.components :
          /\ k \in DOMAIN components
          /\ components[k] # last.rt[1].pre.components[k]
          /\ k \in DOMAIN ModuleOf(last.ref).components
          /\ \E i \in 1..Len(plugins) :
                /\ plugins[i].name # last.name
                /\ k \in DOMAIN ModuleOf(plugins[i].ref).components

\* C27: registrations of one name that overlap register the plugin once:
\* of two loads of a name with no unload of it between them the second is
\* a duplicate, and no route is in the route list twice.
C27_OverlappingRegistrationsOnce ==
    mounted = "plugin"
    => /\ \A first \in 1..Len(tasks), second \in 1..Len(tasks) :
             (/\ first < second
              /\ tasks[first].op = "load" /\ tasks[second].op = "load"
              /\ tasks[first].name = tasks[second].name
              /\ tasks[first].outcome = "loaded"
              /\ tasks[second].pc = "settled"
              /\ ~\E between \in (first + 1)..(second - 1) :
                     /\ tasks[between].op = "unload"
                     /\ tasks[between].name = tasks[first].name)
             => tasks[second].outcome = "duplicate"
       /\ \A i \in 1..Len(routes), j \in 1..Len(routes) :
             i # j => routes[i].ref # routes[j].ref

\* C28: what a plugin contributes is in the registry only after a load of
\* it has come through onInit, and while an unload of it awaits onDestroy
\* (no other unload of the name having gone through) it is still there: the
\* removal is queued only when onDestroy has settled.
C28_LifecycleOrdering ==
    /\ \A i \in 1..Len(plugins) :
          \E id \in 1..Len(tasks) :
             /\ tasks[id].op = "load" /\ tasks[id].ref = plugins[i].ref
             /\ tasks[id].pc = "settled" /\ tasks[id].outcome = "loaded"
    /\ \A id \in 1..Len(tasks) :
          (/\ tasks[id].op = "unload" /\ tasks[id].pc = "onDestroy"
           /\ ~\E other \in 1..Len(tasks) :
                  /\ tasks[other].op = "unload"
                  /\ tasks[other].name = tasks[id].name
                  /\ tasks[other].outcome \in {"unloaded", "destroyFailed"})
          => /\ MapHas(plugins, tasks[id].name)
             /\ Queued(id, pending) = {}
    /\ \A i \in 1..Len(pending) : tasks[pending[i].call].pc = "settled"

\* a plugin that came through onInit is registered and an unload of it
\* awaits onDestroy
C28_Witness ==
    \E id \in 1..Len(tasks), loaded \in 1..Len(tasks) :
        /\ tasks[id].op = "unload" /\ tasks[id].pc = "onDestroy"
        /\ tasks[loaded].op = "load" /\ tasks[loaded].hook
        /\ tasks[loaded].outcome = "loaded"
        /\ tasks[loaded].ref = tasks[id].ref
        /\ MapHas(plugins, tasks[id].name)

\* C29: the enabled set holds names of registered plugins only.
C29_EnabledAreRegistered ==
    mounted = "react"
    => \A name \in enabledPlugins : MapHas(plugins, name)

\* C30: every key of the bundle a registered plugin was registered with is
\* in the merged bundle, whatever other plugin has been unregistered since.
C30_RegisteredKeysStay ==
    \A i \in 1..Len(plugins) :
        DOMAIN ModuleOf(plugins[i].ref).components \subseteq DOMAIN components

====
